---- MODULE Spec2Model ----
(***************************************************************************)
(* Deployment job engine of deploy-theme-backend.                          *)
(*                                                                         *)
(* The model covers the admission / idempotency logic of                   *)
(* deployThemeToBusiness in its two versions (the script-orchestrating one *)
(* of src/services/deployment.service.ts and the step-based one), the      *)
(* status store (one JSON file per key), the BullMQ queue with its single  *)
(* worker, and the two paths of the deployTheme controller.                *)
(*                                                                         *)
(* Every `await` of deployThemeToBusiness is a point where another request *)
(* or the worker may run, so its actions are the code between two awaits.  *)
(* Status-store writes and socket emits are taken to succeed here.         *)
(*                                                                         *)
(* Detailed views stand beside the engine, each with its own               *)
(* specification and its own variable: the rollback taken apart into its   *)
(* commands (RbSpec), the status file while fs.writeFile is at work        *)
(* (DiskSpec), the log lines of a queued run with a client of the log      *)
(* stream (SseSpec), the dispatch order of waiting jobs (PqSpec), the      *)
(* resources of the host under two runs (HostSpec), one call of            *)
(* executeCommand with its child process (CmdSpec), and a queued run whose *)
(* writes and emits can fail (IoSpec), two invocations of deploy_theme.sh  *)
(* for one key with its lock file (ShSpec), a queued job with its timeout  *)
(* (TmSpec), and the names derived from two pairs of ids (EncSpec).        *)
(***************************************************************************)
EXTENDS Integers, FiniteSets, Sequences, TLC

VARIABLES
    variant,      \* which deployment.service is wired in: "script" or "steps"
    now,          \* wall clock, in minutes
    store,        \* status store: key -> persisted Deployment record
    lock,         \* deploy_theme.sh LOCK_FILE of the key exists
    jobs,         \* BullMQ jobs: key (= jobId) -> [state, ssh]
    run,          \* invocations of deployThemeToBusiness: slot -> local state
    obs,          \* per invocation: what it has read and done so far
    reply,        \* last answer of the controller: [code, seen]; seen is the
                  \* job state the request read, "cancel" for cancelDeployment,
                  \* "invalid" for a body that was refused
    everSuccess,  \* key -> a success record has been persisted for the key
    resub,        \* key -> re-submitted through the queue while failed, no new run yet
    marked,       \* key -> deployment-status was emitted and no run has started since
    rb,           \* one rollback taken apart into its commands
    sse,          \* one queued run and one client of the log stream
    disk,         \* one status file while it is written and read
    pq,           \* the waiting jobs of several keys and their dispatch
    host,         \* the host's resources and two runs that change them
    cmd,          \* one call of executeCommand and its child process
    io,           \* one queued run whose store writes and emits can fail
    sh,           \* two invocations of deploy_theme.sh for one key
    tm,           \* one queued job submitted with a timeout
    enc           \* two pairs (themeId, businessId) and the names derived from them

\* the variables of the detailed views; the engine leaves them alone
detail == <<rb, sse, disk, pq, host, cmd, io, sh, tm, enc>>

\* the variables of the engine; the detailed views leave them alone
engine == <<variant, now, store, lock, jobs, run, obs, reply, everSuccess,
            resub, marked>>

vars == <<variant, now, store, lock, jobs, run, obs, reply, everSuccess, resub,
          marked, detail>>

---------------------------------------------------------------------------
(* Bounds *)

\* last minute of the wall clock
MaxNow == 30

Keys == {"t1-biz1"}

\* the worker runs one job at a time (BullMQ's default concurrency); direct
\* (useQueue = false) requests run deployThemeToBusiness beside it
WorkerSlot == "worker"
DirectSlots == {"direct"}
Slots == {WorkerSlot} \cup DirectSlots

---------------------------------------------------------------------------
(* Status store *)

NoTime == -1
Infinity == 1000000
STALE_MINUTES == 30
TickSteps == {STALE_MINUTES \div 2, STALE_MINUTES}

Statuses == {"in_progress", "success", "failed"}
NoRecord == [status |-> "none", createdAt |-> NoTime, error |-> FALSE]

\* the record left by a run of an earlier process that died mid-pipeline
\* with the script-orchestrating service (it writes no createdAt)
LeftoverRecord == [status |-> "in_progress", createdAt |-> NoTime, error |-> FALSE]

fileExists(rec) == rec.status # "none"

\* a write that never reaches the disk
writeDeploymentFile_lost(s, k, rec) == s

writeDeploymentFile(s, k, rec) == [s EXCEPT ![k] = rec]

\* an in_progress record that takes over the error field of the record it
\* replaces
InProgressRecord_withError(v, t) ==
    [status |-> "in_progress", createdAt |-> IF v = "steps" THEN t ELSE NoTime,
     error |-> TRUE]

\* const inProgress: Deployment = { ..., status: "in_progress", createdAt: now }
\* a new object: it has no error field (error: the record has the field)
InProgressRecord(v, t) ==
    [status |-> "in_progress", createdAt |-> IF v = "steps" THEN t ELSE NoTime,
     error |-> FALSE]

\* { ...inProgress, status } : the terminal record keeps inProgress.createdAt
TerminalRecord(status, created) ==
    [status |-> status, createdAt |-> created, error |-> FALSE]

ageMinutes(rec, t) ==
    IF rec.createdAt # NoTime THEN t - rec.createdAt ELSE Infinity

\* the threshold test with the boundary on the wrong side
IsFresh_inclusive(rec, t) == ageMinutes(rec, t) <= STALE_MINUTES

IsFresh(rec, t) == ageMinutes(rec, t) < STALE_MINUTES

\* an idempotency check that only knows the success case
ShortCircuits_successOnly(v, rec, t) ==
    fileExists(rec) /\ rec.status = "success"

\* the idempotency check: TRUE when the existing record is returned
ShortCircuits(v, rec, t) ==
    IF ~fileExists(rec) THEN FALSE
    ELSE IF v = "steps"
         THEN IF rec.status = "in_progress" THEN IsFresh(rec, t)
              ELSE rec.status = "success"
         ELSE rec.status = "in_progress" \/ rec.status = "success"

---------------------------------------------------------------------------
(* Pipeline positions *)

StepsSeq == <<"deps", "repo", "clone", "env", "install", "build", "pm2", "nginx">>
ScriptSeq == <<"spawn", "deps", "repo", "lock", "clone", "env", "install",
               "build", "pm2", "nginx", "cleanup">>

StepSeq(v) == IF v = "steps" THEN StepsSeq ELSE ScriptSeq

StepNames == {ScriptSeq[i] : i \in 1..Len(ScriptSeq)}

IndexOf(seq, x) == CHOOSE i \in 1..Len(seq) : seq[i] = x

FirstStep(v) == StepSeq(v)[1]

NextPc(v, pc) ==
    LET seq == StepSeq(v)
        i == IndexOf(seq, pc)
    IN IF i = Len(seq) THEN "writeSuccess" ELSE seq[i + 1]

\* between the in_progress write and the terminal write
MidPipeline == StepNames \cup {"sshFail", "scriptRollback", "rollback",
                               "writeSuccess", "writeFailed"}

IdleRun == [pc |-> "idle", key |-> CHOOSE k \in Keys : TRUE, ssh |-> FALSE,
            createdAt |-> NoTime]

IdleObs == [seen |-> "none", ranCmd |-> FALSE, writes |-> <<>>,
            rollbacks |-> 0, cause |-> "none", rbOutcome |-> "none",
            result |-> "none", failedAt |-> "none", rbLogged |-> FALSE,
            error |-> {}, msg |-> "none"]

NoReply == [code |-> 0, seen |-> "none"]

NoJob == [state |-> "none", ssh |-> FALSE]

\* what the error field of a failed record is made of: the step-based
\* service stores the message of the failure that ended the pipeline, the
\* script-orchestrating one writes no error field
errorField(v, cause) == IF v = "steps" THEN {cause} ELSE {}

\* the one line of logs in the failed record of the ssh branch
SshMessage(v) ==
    IF v = "steps" THEN "Remote SSH deployment not implemented"
    ELSE "Remote SSH deployment via bash script not yet implemented."

\* a service without the ssh branch
AfterInProgress_ignoresSsh(v, ssh) == FirstStep(v)

\* if (business.ssh): the branch is taken right after the in_progress write
AfterInProgress(v, ssh) == IF ssh THEN "sshFail" ELSE FirstStep(v)

\* the failed record: { ...inProgress, logs, error } through failDeployment
\* in the step-based service, { ..., status: "failed", logs } in the other
FailedRecord(v, created, cause) ==
    [status |-> "failed", createdAt |-> created,
     error |-> errorField(v, cause) # {}]

\* every way the rollback can fail pushes a line to logs
rollbackFailureLogged(out) == out # "ok"

\* the detailed views are not running
Off == [on |-> FALSE]
DetailOff == rb = Off /\ sse = Off /\ disk = Off /\ pq = Off /\ host = Off /\ cmd = Off /\ io = Off /\ sh = Off /\ tm = Off /\ enc = Off

---------------------------------------------------------------------------
Init ==
    /\ variant \in {"script", "steps"}
    /\ now = 0
    /\ store \in [Keys -> {NoRecord, LeftoverRecord}]
    /\ lock = [k \in Keys |-> FALSE]
    /\ jobs = [k \in Keys |-> NoJob]
    /\ run = [p \in Slots |-> IdleRun]
    /\ obs = [p \in Slots |-> IdleObs]
    /\ reply = NoReply
    /\ everSuccess = [k \in Keys |-> FALSE]
    /\ resub = [k \in Keys |-> FALSE]
    /\ marked = [k \in Keys |-> FALSE]
    /\ DetailOff

\* the clock advances
Tick ==
    /\ \E d \in TickSteps :
         /\ now + d <= MaxNow
         /\ now' = now + d
    /\ UNCHANGED <<variant, store, lock, jobs, run, obs, reply, everSuccess, resub, marked, detail>>

---------------------------------------------------------------------------
(* deployThemeToBusiness *)

\* another invocation on the same key is between its two writes
OtherMidPipeline(p, k) ==
    \E q \in Slots \ {p} : run[q].key = k /\ run[q].pc \in MidPipeline

\* the idempotency check: read the record, return it or go on
IdempotencyCheck(p) ==
    /\ run[p].pc = "check"
    /\ LET k == run[p].key
           rec == store[k]
           hit == ShortCircuits(variant, rec, now)
       IN /\ run' = [run EXCEPT ![p].pc = IF hit THEN "returned" ELSE "writeIP"]
          /\ obs' = [obs EXCEPT
                ![p].seen = rec.status,
                ![p].result = IF hit THEN rec.status ELSE "none"]
    /\ UNCHANGED <<variant, now, store, lock, jobs, reply, everSuccess, resub, marked, detail>>

\* await writeDeploymentFile(deploymentFile, inProgress)
WriteInProgress(p) ==
    /\ run[p].pc = "writeIP"
    /\ LET k == run[p].key
           rec == InProgressRecord(variant, now)
       IN /\ store' = writeDeploymentFile(store, k, rec)
          /\ run' = [run EXCEPT ![p].pc = AfterInProgress(variant, run[p].ssh),
                                ![p].createdAt = rec.createdAt]
          /\ obs' = [obs EXCEPT ![p].writes = Append(@, "in_progress")]
          /\ resub' = [resub EXCEPT ![k] = FALSE]
    /\ UNCHANGED <<variant, now, lock, jobs, reply, everSuccess, marked, detail>>

\* if (business.ssh) { ... status: "failed" ... }
SshUnsupported(p) ==
    /\ run[p].pc = "sshFail"
    /\ LET k == run[p].key
       IN store' = writeDeploymentFile(store, k,
                       FailedRecord(variant, run[p].createdAt, "ssh"))
    /\ run' = [run EXCEPT ![p].pc = "done"]
    /\ obs' = [obs EXCEPT ![p].writes = Append(@, "failed"),
                          ![p].cause = "ssh", ![p].result = "failed",
                          ![p].error = errorField(variant, "ssh"),
                          ![p].msg = SshMessage(variant)]
    /\ UNCHANGED <<variant, now, lock, jobs, reply, everSuccess, resub, marked, detail>>

\* how a step of deploy_theme.sh can fail: through error_exit, or by a
\* command that is not guarded and ends the script under `set -e`
ScriptFailKinds(pc) ==
    CASE pc = "spawn"   -> {"nospawn"}
      [] pc = "env"     -> {"set_e"}
      [] pc = "cleanup" -> {"set_e"}
      [] pc = "pm2"     -> {"error_exit", "set_e"}
      [] pc = "nginx"   -> {"error_exit", "set_e"}
      [] OTHER          -> {"error_exit"}

\* ${TMP_DIR}/deploy_in_progress exists from check_repo_access on
MarkerExists(pc) == pc \notin {"spawn", "deps"}

StepOutcomes(v, pc, locked) ==
    IF v = "steps" THEN {"ok", "fail"}
    ELSE IF pc = "lock" THEN (IF locked THEN {"error_exit"} ELSE {"ok"})
    ELSE {"ok"} \cup ScriptFailKinds(pc)

\* a pipeline that goes on to the next step whatever the outcome
AfterStep_continues(v, pc, out) == NextPc(v, pc)

\* error_exit: rollback inside the script only when the marker exists
AfterStep(v, pc, out) ==
    IF out = "ok" THEN NextPc(v, pc)
    ELSE IF v = "script" /\ out = "error_exit" /\ MarkerExists(pc)
         THEN "scriptRollback"
         ELSE "rollback"

LockAfter(v, pc, out, locked) ==
    IF v = "script" /\ pc = "lock" /\ out = "ok" THEN TRUE
    ELSE IF v = "script" /\ pc = "cleanup" THEN FALSE
    ELSE locked

\* where a run failed: in one of the two checks that change nothing on the
\* host, or later
FailPoint(pc) == IF pc \in {"deps", "repo"} THEN pc ELSE "later"

\* one pipeline step: its commands run, and it succeeds or fails
Step(p) ==
    /\ run[p].pc \in StepNames
    /\ LET pc == run[p].pc
           k == run[p].key
       IN \E out \in StepOutcomes(variant, pc, lock[k]) :
            /\ run' = [run EXCEPT ![p].pc = AfterStep(variant, pc, out)]
            /\ lock' = [lock EXCEPT ![k] = LockAfter(variant, pc, out, @)]
            /\ obs' = [obs EXCEPT ![p].ranCmd = TRUE,
                                  ![p].cause = IF out = "ok" THEN @ ELSE "step",
                                  ![p].failedAt = IF out = "ok" THEN @
                                                  ELSE FailPoint(pc)]
    /\ UNCHANGED <<variant, now, store, jobs, reply, everSuccess, resub, marked, detail>>

\* error_exit of deploy_theme.sh: rollback, then exit 1
ScriptRollback(p) ==
    /\ run[p].pc = "scriptRollback"
    /\ run' = [run EXCEPT ![p].pc = "rollback"]
    /\ obs' = [obs EXCEPT ![p].rollbacks = @ + 1]
    /\ UNCHANGED <<variant, now, store, lock, jobs, reply, everSuccess, resub, marked, detail>>

\* what the rollback started by the catch block can do
RollbackOutcomes(v) ==
    IF v = "steps" THEN {"ok", "caught", "threw"}
    ELSE {"ok", "nonzero", "spawnError"}

\* a rollback whose exception is not caught
AfterRollback_rethrows(out) ==
    IF out \in {"threw", "spawnError"} THEN "threw" ELSE "writeFailed"

\* the catch around the rollback swallows whatever it throws
AfterRollback(out) == "writeFailed"

\* catch (error) { ... rollback ... }
NodeRollback(p) ==
    /\ run[p].pc = "rollback"
    /\ \E out \in RollbackOutcomes(variant) :
         /\ run' = [run EXCEPT ![p].pc = AfterRollback(out)]
         /\ obs' = [obs EXCEPT ![p].rollbacks = @ + 1, ![p].rbOutcome = out,
                               ![p].rbLogged = rollbackFailureLogged(out)]
    /\ UNCHANGED <<variant, now, store, lock, jobs, reply, everSuccess, resub, marked, detail>>

\* failDeployment / the write of the failed result
WriteFailed(p) ==
    /\ run[p].pc = "writeFailed"
    /\ LET k == run[p].key
       IN store' = writeDeploymentFile(store, k,
                       FailedRecord(variant, run[p].createdAt, obs[p].cause))
    /\ run' = [run EXCEPT ![p].pc = "done"]
    /\ obs' = [obs EXCEPT ![p].writes = Append(@, "failed"),
                          ![p].result = "failed",
                          ![p].error = errorField(variant, obs[p].cause)]
    /\ UNCHANGED <<variant, now, lock, jobs, reply, everSuccess, resub, marked, detail>>

\* the write of the success result
WriteSuccess(p) ==
    /\ run[p].pc = "writeSuccess"
    /\ LET k == run[p].key
       IN /\ store' = writeDeploymentFile(store, k,
                          TerminalRecord("success", run[p].createdAt))
          /\ everSuccess' = [everSuccess EXCEPT ![k] = TRUE]
    /\ run' = [run EXCEPT ![p].pc = "done"]
    /\ obs' = [obs EXCEPT ![p].writes = Append(@, "success"),
                          ![p].result = "success"]
    /\ UNCHANGED <<variant, now, lock, jobs, reply, resub, marked, detail>>

Finished == {"returned", "done", "threw"}

---------------------------------------------------------------------------
(* deployTheme, direct path *)

\* config.useQueue === false: deployThemeToBusiness is called in the request
DirectDeploy(p) ==
    /\ p # WorkerSlot
    /\ run[p].pc = "idle"
    /\ \E k \in Keys, s \in BOOLEAN :
         /\ run' = [run EXCEPT ![p] = [pc |-> "check", key |-> k, ssh |-> s,
                                       createdAt |-> NoTime]]
         /\ marked' = [marked EXCEPT ![k] = FALSE]
    /\ UNCHANGED <<variant, now, store, lock, jobs, obs, reply, everSuccess, resub, detail>>

\* res.status(200) / res.status(500): the request is over
DirectRespond(p) ==
    /\ p # WorkerSlot
    /\ run[p].pc \in Finished
    /\ run' = [run EXCEPT ![p] = IdleRun]
    /\ obs' = [obs EXCEPT ![p] = IdleObs]
    /\ UNCHANGED <<variant, now, store, lock, jobs, reply, everSuccess, resub, marked, detail>>

---------------------------------------------------------------------------
(* The queue, its worker, and deployTheme's queue path *)

JobStates == {"none", "waiting", "active", "completed", "failed"}

\* getDeploymentJobStatus(...).status : the BullMQ state, or null
getDeploymentJobStatus(k) == jobs[k].state

\* an add that puts the new request in the place of the job that exists
addDeploymentJob_replaces(js, k, s) ==
    [js EXCEPT ![k] = [state |-> IF @.state = "active" THEN "active" ELSE "waiting",
                       ssh |-> s]]

\* deploymentQueue.add with jobId: a job whose id exists already (in any
\* state, nothing is removed on completion or failure) is left as it is
addDeploymentJob(js, k, s) ==
    IF js[k].state = "none"
    THEN [js EXCEPT ![k] = [state |-> "waiting", ssh |-> s]]
    ELSE js

\* the answer of the first status check of the queue path, 0 = go on
AdmissionAnswer(status) ==
    IF status = "in_progress" THEN 409
    ELSE IF status = "success" THEN 200
    ELSE 0

\* the queue path of deployTheme: the status check, then the add and the
\* 202 answer (the job's payload is the request's)
deployThemeQueued ==
    /\ \E k \in Keys, s \in BOOLEAN :
         LET status == getDeploymentJobStatus(k)
             answer == AdmissionAnswer(status)
         IN IF answer # 0
            THEN /\ reply' = [code |-> answer, seen |-> status]
                 /\ UNCHANGED <<jobs, resub>>
            ELSE /\ jobs' = addDeploymentJob(jobs, k, s)
                 /\ reply' = [code |-> 202, seen |-> status]
                 /\ resub' = [resub EXCEPT ![k] = @ \/ store[k].status = "failed"]
    /\ UNCHANGED <<variant, now, store, lock, run, obs, everSuccess, marked, detail>>

\* deployTheme with a body the schema refuses: 400, before anything is read
deployThemeInvalid ==
    /\ reply' = [code |-> 400, seen |-> "invalid"]
    /\ UNCHANGED <<variant, now, store, lock, jobs, run, obs, everSuccess, resub, marked, detail>>

\* the answer of cancelDeployment: 404 without a job, 400 for a job that is
\* not 'in_progress', 501 for one that is
CancelAnswer(status) ==
    IF status = "none" THEN 404
    ELSE IF status # "in_progress" THEN 400
    ELSE 501

\* cancelDeployment: it reads the job's state and answers; nothing is
\* removed, stopped or written
cancelDeployment ==
    /\ \E k \in Keys :
         reply' = [code |-> CancelAnswer(getDeploymentJobStatus(k)),
                   seen |-> "cancel"]
    /\ UNCHANGED <<variant, now, store, lock, jobs, run, obs, everSuccess, resub, marked, detail>>

\* the worker takes a waiting job and calls deployThemeToBusiness
worker ==
    /\ run[WorkerSlot].pc = "idle"
    /\ \E k \in Keys :
         /\ jobs[k].state = "waiting"
         /\ jobs' = [jobs EXCEPT ![k].state = "active"]
         /\ run' = [run EXCEPT ![WorkerSlot] =
                       [pc |-> "check", key |-> k, ssh |-> jobs[k].ssh,
                        createdAt |-> NoTime]]
         /\ marked' = [marked EXCEPT ![k] = FALSE]
    /\ UNCHANGED <<variant, now, store, lock, obs, reply, everSuccess, resub, detail>>

\* the processor returned (job completed) or threw (job failed)
JobStateAfter(pc) == IF pc = "threw" THEN "failed" ELSE "completed"

\* a worker that removes the key's record when its job is over
workerFinish_deletes ==
    /\ run[WorkerSlot].pc \in Finished
    /\ jobs' = [jobs EXCEPT ![run[WorkerSlot].key].state =
                   JobStateAfter(run[WorkerSlot].pc)]
    /\ run' = [run EXCEPT ![WorkerSlot] = IdleRun]
    /\ obs' = [obs EXCEPT ![WorkerSlot] = IdleObs]
    /\ marked' = [marked EXCEPT ![run[WorkerSlot].key] = TRUE]
    /\ store' = [store EXCEPT ![run[WorkerSlot].key] = NoRecord]
    /\ UNCHANGED <<variant, now, lock, reply, everSuccess, resub, detail>>

workerFinish ==
    /\ run[WorkerSlot].pc \in Finished
    /\ jobs' = [jobs EXCEPT ![run[WorkerSlot].key].state =
                   JobStateAfter(run[WorkerSlot].pc)]
    /\ run' = [run EXCEPT ![WorkerSlot] = IdleRun]
    /\ obs' = [obs EXCEPT ![WorkerSlot] = IdleObs]
    /\ marked' = [marked EXCEPT ![run[WorkerSlot].key] = TRUE]
    /\ UNCHANGED <<variant, now, store, lock, reply, everSuccess, resub, detail>>

---------------------------------------------------------------------------
Pipeline(p) ==
    \/ IdempotencyCheck(p)
    \/ WriteInProgress(p)
    \/ SshUnsupported(p)
    \/ Step(p)
    \/ ScriptRollback(p)
    \/ NodeRollback(p)
    \/ WriteFailed(p)
    \/ WriteSuccess(p)

Next ==
    \/ Tick
    \/ \E p \in Slots : Pipeline(p)
    \/ \E p \in Slots : DirectDeploy(p)
    \/ \E p \in Slots : DirectRespond(p)
    \/ deployThemeQueued
    \/ deployThemeInvalid
    \/ cancelDeployment
    \/ worker
    \/ workerFinish

Spec == Init /\ [][Next]_vars

\* the scheduling the code has: the worker takes waiting jobs, and every
\* await of a running invocation eventually resumes; requests are not forced
FairSpec ==
    /\ Spec
    /\ WF_vars(worker)
    /\ WF_vars(workerFinish)
    /\ \A p \in Slots : WF_vars(Pipeline(p))
    /\ \A p \in Slots : WF_vars(DirectRespond(p))

---------------------------------------------------------------------------
(* The engine at rest, under the detailed views *)

EngineOff ==
    /\ variant = "steps"
    /\ now = 0
    /\ store = [k \in Keys |-> NoRecord]
    /\ lock = [k \in Keys |-> FALSE]
    /\ jobs = [k \in Keys |-> NoJob]
    /\ run = [p \in Slots |-> IdleRun]
    /\ obs = [p \in Slots |-> IdleObs]
    /\ reply = NoReply
    /\ everSuccess = [k \in Keys |-> FALSE]
    /\ resub = [k \in Keys |-> FALSE]
    /\ marked = [k \in Keys |-> FALSE]

---------------------------------------------------------------------------
(* The rollback, command by command *)

\* the steps a rollback is made of
RbSteps == {"pm2", "dir", "conf", "reload"}

\* the commands of a rollback that can fail
RbCommands == {"pm2", "dir", "link", "conf", "reload"}

\* what can be on the host when a rollback starts
RbResources == {"pm2cmd", "proc", "dir", "link", "conf"}

\* attemptRollback of the step-based service: f = the commands that fail,
\* has = what exists. Only the removal of the directory is outside an inner
\* try; its failure reaches the outer catch, which rethrows.
attemptRollback(f, has) ==
    IF "dir" \in has /\ "dir" \in f
    THEN [reached |-> {"pm2", "dir"}, outcome |-> "threw"]
    ELSE [reached |-> {"pm2", "dir", "conf", "reload"},
          outcome |-> IF f \cap {"pm2", "link", "conf", "reload"} # {}
                      THEN "caught" ELSE "ok"]

\* rollback_deploy.sh: error_exit ends the script at the first command that
\* fails, the pm2 commands excepted (|| true)
rollback_deploy(f, has) ==
    IF "pm2cmd" \notin has
    THEN [reached |-> {}, outcome |-> "nonzero"]
    ELSE IF "dir" \in has /\ "dir" \in f
    THEN [reached |-> {"pm2", "dir"}, outcome |-> "nonzero"]
    ELSE IF \/ "link" \in has /\ "link" \in f
            \/ "conf" \in has /\ "conf" \in f
    THEN [reached |-> {"pm2", "dir", "conf"}, outcome |-> "nonzero"]
    ELSE [reached |-> {"pm2", "dir", "conf", "reload"},
          outcome |-> IF "reload" \in f THEN "nonzero" ELSE "ok"]

\* rollback of deploy_theme.sh: every command is followed by || log_warn
rollback(f, has) ==
    [reached |-> {"pm2", "dir", "conf", "reload"}, outcome |-> "ok"]

\* the three removals of a rollback, and what its log says about each:
\* "removed" (stopped, removed), "absent" (nothing was there), "failed",
\* "silent" (no line at all), "none" (the rollback did not get there)
RbRemovals == {"pm2", "dir", "conf"}

\* the log lines of attemptRollback. pm2 stop && pm2 delete fails without a
\* process, and the catch says so; the directory is behind directoryExists;
\* rm -f succeeds whether the file is there or not, and the line after it
\* says "Removed NGINX configuration"
attemptRollbackLogs(f, has) ==
    LET pm2Fails == "pm2" \in f \/ "proc" \notin has \/ "pm2cmd" \notin has
        dirThrows == "dir" \in has /\ "dir" \in f
    IN [s \in RbRemovals |->
          CASE s = "pm2" -> IF pm2Fails THEN "absent" ELSE "removed"
            [] s = "dir" -> IF "dir" \notin has THEN "absent"
                            ELSE IF "dir" \in f THEN "failed" ELSE "removed"
            [] s = "conf" -> IF dirThrows THEN "none"
                             ELSE IF f \cap {"link", "conf"} # {} THEN "absent"
                             ELSE "removed"]

\* the log lines of rollback_deploy.sh: each removal is behind a test, with
\* a "not found, skipping" line in its else branch
rollback_deployLogs(f, has) ==
    LET dirExits == "dir" \in has /\ "dir" \in f
    IN [s \in RbRemovals |->
          IF "pm2cmd" \notin has THEN "none"
          ELSE CASE s = "pm2" -> IF "proc" \in has THEN "removed" ELSE "absent"
                 [] s = "dir" -> IF "dir" \notin has THEN "absent"
                                 ELSE IF "dir" \in f THEN "failed" ELSE "removed"
                 [] s = "conf" ->
                      IF dirExits THEN "none"
                      ELSE IF has \cap {"link", "conf"} = {} THEN "absent"
                      ELSE IF (has \cap {"link", "conf"}) \cap f # {} THEN "failed"
                      ELSE "removed"]

\* the log lines of rollback of deploy_theme.sh: the tests have no else
\* branch, and a command that fails is followed by log_warn
rollbackLogs(f, has) ==
    [s \in RbRemovals |->
        LET there == CASE s = "pm2" -> {"proc"} \cap has
                       [] s = "dir" -> {"dir"} \cap has
                       [] s = "conf" -> {"link", "conf"} \cap has
            cmds == IF s = "pm2" THEN {"pm2"} ELSE there
        IN IF there = {} THEN "silent"
           ELSE IF cmds \cap f # {} THEN "failed" ELSE "removed"]

RbInit ==
    /\ EngineOff
    /\ sse = Off /\ disk = Off /\ pq = Off /\ host = Off /\ cmd = Off /\ io = Off /\ sh = Off /\ tm = Off /\ enc = Off
    /\ rb \in [on : {TRUE},
               kind : {"attemptRollback", "rollback_deploy", "rollback"},
               f : SUBSET RbCommands, has : SUBSET RbResources,
               done : {FALSE}, reached : {{}}, outcome : {"none"},
               report : {[s \in RbRemovals |-> "none"]}]

RbRun(kind, result, report) ==
    /\ rb.on /\ ~rb.done /\ rb.kind = kind
    /\ rb' = [rb EXCEPT !.done = TRUE, !.reached = result.reached,
                        !.outcome = result.outcome, !.report = report]
    /\ UNCHANGED <<engine, sse, disk, pq, host, cmd, io, sh, tm, enc>>

RunAttemptRollback ==
    RbRun("attemptRollback", attemptRollback(rb.f, rb.has),
          attemptRollbackLogs(rb.f, rb.has))

RunRollbackDeploy ==
    RbRun("rollback_deploy", rollback_deploy(rb.f, rb.has),
          rollback_deployLogs(rb.f, rb.has))

RunScriptRollback ==
    RbRun("rollback", rollback(rb.f, rb.has), rollbackLogs(rb.f, rb.has))

RbNext == RunAttemptRollback \/ RunRollbackDeploy \/ RunScriptRollback

RbSpec == RbInit /\ [][RbNext]_vars

---------------------------------------------------------------------------
(* One status file, written by a run while another invocation reads it *)

\* what a reader can find in the file while fs.writeFile is at work: the
\* file is truncated when it is opened and filled afterwards
Torn == {"empty", "partial"}

FileContents == {"none"} \cup Torn \cup Statuses

\* JSON.parse of what was read, then the status tests of the check:
\* where the invocation goes
AfterRead(v, content) ==
    IF content \in Torn
    THEN IF v = "steps" THEN "writeIP" ELSE "threw"
    ELSE IF content \in {"in_progress", "success"} THEN "returned"
    ELSE "writeIP"

DiskInit ==
    /\ EngineOff
    /\ rb = Off /\ sse = Off /\ pq = Off /\ host = Off /\ cmd = Off /\ io = Off /\ sh = Off /\ tm = Off /\ enc = Off
    /\ disk \in [on : {TRUE}, v : {"script", "steps"},
                 file : {"none", "failed"}, wpc : {"openIP"},
                 term : {"none"}, rpc : {"idle"}, seen : {"unread"}]

\* fs.writeFile opens the file with flag 'w': it is empty from here on
WriterOpen ==
    /\ disk.on /\ disk.wpc \in {"openIP", "openT"}
    /\ disk' = [disk EXCEPT !.file = "empty",
                            !.wpc = IF disk.wpc = "openIP" THEN "dataIP"
                                    ELSE "dataT"]
    /\ UNCHANGED <<engine, rb, sse, pq, host, cmd, io, sh, tm, enc>>

\* the JSON text reaches the file, in one piece or in two
WriterData ==
    /\ disk.on /\ disk.wpc \in {"dataIP", "dataT"}
    /\ \/ /\ disk.file = "empty"
          /\ disk' = [disk EXCEPT !.file = "partial"]
       \/ disk' = [disk EXCEPT
                       !.file = IF disk.wpc = "dataIP" THEN "in_progress"
                                ELSE disk.term,
                       !.wpc = IF disk.wpc = "dataIP" THEN "pipeline"
                               ELSE "done"]
    /\ UNCHANGED <<engine, rb, sse, pq, host, cmd, io, sh, tm, enc>>

\* the pipeline between the two writes, and its outcome
WriterPipeline ==
    /\ disk.on /\ disk.wpc = "pipeline"
    /\ \E t \in {"success", "failed"} :
         disk' = [disk EXCEPT !.wpc = "openT", !.term = t]
    /\ UNCHANGED <<engine, rb, sse, pq, host, cmd, io, sh, tm, enc>>

\* fileExists / fs.existsSync of the other invocation
ReaderExists ==
    /\ disk.on /\ disk.rpc = "idle"
    /\ disk' = [disk EXCEPT !.rpc = IF disk.file = "none" THEN "writeIP"
                                    ELSE "read"]
    /\ UNCHANGED <<engine, rb, sse, pq, host, cmd, io, sh, tm, enc>>

\* readFile, JSON.parse and the status tests
ReaderParse ==
    /\ disk.on /\ disk.rpc = "read"
    /\ disk' = [disk EXCEPT !.seen = disk.file,
                            !.rpc = AfterRead(disk.v, disk.file)]
    /\ UNCHANGED <<engine, rb, sse, pq, host, cmd, io, sh, tm, enc>>

DiskNext ==
    \/ WriterOpen
    \/ WriterData
    \/ WriterPipeline
    \/ ReaderExists
    \/ ReaderParse

DiskSpec == DiskInit /\ [][DiskNext]_vars

---------------------------------------------------------------------------
(* The waiting jobs of several keys and the order of their dispatch *)

JobIds == {"t1-biz1", "t1-biz2", "t2-biz1"}

Priorities == {"low", "normal", "high"}

\* priorityMap of addDeploymentJob: jobOptions.priority
priorityMap(priority) ==
    CASE priority = "low"    -> 1
      [] priority = "normal" -> 5
      [] priority = "high"   -> 10

\* the rank the request asks for: high before normal before low
Weight(priority) ==
    CASE priority = "low"    -> 1
      [] priority = "normal" -> 2
      [] priority = "high"   -> 3

\* the job the queue hands to the worker: BullMQ serves the smallest
\* priority number first and, among equal numbers, the job added first
NextJob(waiting) ==
    CHOOSE i \in 1..Len(waiting) :
        \A j \in 1..Len(waiting) :
            \/ waiting[i].opt < waiting[j].opt
            \/ waiting[i].opt = waiting[j].opt /\ i <= j

Without(seq, i) == [j \in 1..(Len(seq) - 1) |-> IF j < i THEN seq[j] ELSE seq[j + 1]]

Known(q) ==
    {q.waiting[i].id : i \in 1..Len(q.waiting)}
        \cup {q.order[i].id : i \in 1..Len(q.order)}

PqInit ==
    /\ EngineOff
    /\ rb = Off /\ sse = Off /\ disk = Off /\ host = Off /\ cmd = Off /\ io = Off /\ sh = Off /\ tm = Off /\ enc = Off
    /\ pq = [on |-> TRUE, waiting |-> <<>>, order |-> <<>>]

\* deployTheme's queue path for a key that has no job yet
QueueAdd ==
    /\ pq.on
    /\ \E id \in JobIds \ Known(pq), priority \in Priorities :
         pq' = [pq EXCEPT !.waiting =
                   Append(@, [id |-> id, priority |-> priority,
                              opt |-> priorityMap(priority)])]
    /\ UNCHANGED <<engine, rb, sse, disk, host, cmd, io, sh, tm, enc>>

\* the worker is free and takes the next job
QueueDispatch ==
    /\ pq.on /\ pq.waiting # <<>>
    /\ LET i == NextJob(pq.waiting)
       IN pq' = [pq EXCEPT !.waiting = Without(@, i),
                           !.order = Append(@, pq.waiting[i])]
    /\ UNCHANGED <<engine, rb, sse, disk, host, cmd, io, sh, tm, enc>>

PqNext == QueueAdd \/ QueueDispatch

PqSpec == PqInit /\ [][PqNext]_vars

---------------------------------------------------------------------------
(* One queued run, its log lines, and one client of the log stream *)

\* the steps of the run whose lines are followed
StreamSteps == <<"clone", "install", "build">>

\* lines are named by what produced them
Msg(step) == <<"message", step>>
Out(step) == <<"output", step>>
WorkerLine(text) == <<"worker", text>>
StatusEvent(status) == <<"deployment-status", status>>
FinalMarker(status) == <<"final", status>>

\* logs of the in_progress record: logs: ["Deployment started"]
InProgressLogs == <<Msg("Deployment started")>>

\* logs.push calls of the service before the pipeline starts
ServiceIntro(v) ==
    IF v = "script"
    THEN <<Msg("Initializing deployment process..."), Msg("Starting deployment...")>>
    ELSE <<>>

\* what one step adds to logs: the step-based service pushes its own
\* messages (onLog); the script-orchestrating one pushes every chunk the
\* script prints
StepToLogs(v, step, ok) ==
    IF v = "steps"
    THEN IF ok THEN <<Msg(step), Msg(<<step, "done">>)>> ELSE <<Msg(step)>>
    ELSE <<Msg(step), Out(step)>>

\* what one step sends to the key's room: executeCommand emits the output
\* of the command; the script-orchestrating service emits every chunk
StepToRoom(v, step, ok) ==
    IF v = "steps" THEN <<Out(step)>> ELSE <<Msg(step), Out(step)>>

\* the catch block and the rollback
CatchToLogs(v) ==
    IF v = "steps"
    THEN <<Msg("Deployment failed"), Msg("[ROLLBACK]")>>
    ELSE <<Msg("Deployment failed"), Msg("Calling rollback_deploy.sh script..."),
           Out("[rollback]")>>

CatchToRoom(v) == <<Out("[rollback]")>>

AfterStreamStep(i, ok) ==
    IF ~ok THEN "catch"
    ELSE IF i = Len(StreamSteps) THEN "write" ELSE StreamSteps[i + 1]

SseInit ==
    /\ EngineOff
    /\ rb = Off /\ disk = Off /\ pq = Off /\ host = Off /\ cmd = Off /\ io = Off /\ sh = Off /\ tm = Off /\ enc = Off
    /\ sse \in [on : {TRUE}, v : {"script", "steps"}, jstate : {"waiting"},
                wpc : {"waiting"}, hasBuffer : {FALSE}, buffer : {<<>>},
                logs : {<<>>}, room : {<<>>}, status : {"in_progress"},
                ipLogs : {<<>>}, rec : {<<>>}, cpc : {"idle"}, got : {<<>>},
                openedAt : {"none"}, http : {0}]

\* the processor starts: deploymentLogs.set(id, []), addLog, and the
\* service's in_progress write and first pushes
LogWorkerStart ==
    /\ sse.on /\ sse.wpc = "waiting"
    /\ sse' = [sse EXCEPT
                  !.jstate = "active", !.hasBuffer = TRUE,
                  !.buffer = <<WorkerLine("Starting deployment...")>>,
                  !.room = <<WorkerLine("Starting deployment...")>>,
                  !.ipLogs = InProgressLogs,
                  !.logs = ServiceIntro(sse.v),
                  !.wpc = StreamSteps[1]]
    /\ UNCHANGED <<engine, rb, disk, pq, host, cmd, io, sh, tm, enc>>

\* one step of the pipeline, with its messages and its output
LogStep ==
    /\ sse.on
    /\ \E i \in 1..Len(StreamSteps), ok \in BOOLEAN :
         /\ sse.wpc = StreamSteps[i]
         /\ sse' = [sse EXCEPT
                       !.logs = @ \o StepToLogs(sse.v, StreamSteps[i], ok),
                       !.room = @ \o StepToRoom(sse.v, StreamSteps[i], ok),
                       !.wpc = AfterStreamStep(i, ok)]
    /\ UNCHANGED <<engine, rb, disk, pq, host, cmd, io, sh, tm, enc>>

\* catch (error): the failure message, then the rollback
LogCatch ==
    /\ sse.on /\ sse.wpc = "catch"
    /\ sse' = [sse EXCEPT !.logs = @ \o CatchToLogs(sse.v),
                          !.room = @ \o CatchToRoom(sse.v),
                          !.status = "failed",
                          !.wpc = "write"]
    /\ UNCHANGED <<engine, rb, disk, pq, host, cmd, io, sh, tm, enc>>

\* the terminal record, with logs as they are now
LogTerminalWrite ==
    /\ sse.on /\ sse.wpc = "write"
    /\ sse' = [sse EXCEPT !.rec = sse.logs,
                          !.status = IF @ = "failed" THEN @ ELSE "success",
                          !.wpc = "return"]
    /\ UNCHANGED <<engine, rb, disk, pq, host, cmd, io, sh, tm, enc>>

\* deployThemeToBusiness returned: addLog, the processor returns, and the
\* 'completed' listener emits deployment-status
LogWorkerReturn ==
    /\ sse.on /\ sse.wpc = "return"
    /\ sse' = [sse EXCEPT
                  !.buffer = Append(@, WorkerLine("Deployment completed successfully")),
                  !.room = @ \o <<WorkerLine("Deployment completed successfully"),
                                  StatusEvent("completed")>>,
                  !.jstate = "completed",
                  !.wpc = "over"]
    /\ UNCHANGED <<engine, rb, disk, pq, host, cmd, io, sh, tm, enc>>

\* getDeploymentLogStream up to its await: 404 without a buffer, else the
\* headers and the replay of the buffer
StreamOpen ==
    /\ sse.on /\ sse.cpc = "idle"
    /\ sse' = IF ~sse.hasBuffer
              THEN [sse EXCEPT !.cpc = "closed", !.http = 404,
                               !.openedAt = sse.jstate]
              ELSE [sse EXCEPT !.cpc = "status", !.http = 200,
                               !.got = sse.buffer, !.openedAt = sse.jstate]
    /\ UNCHANGED <<engine, rb, disk, pq, host, cmd, io, sh, tm, enc>>

\* after await getDeploymentJobStatus: polling only for a job whose state
\* is 'in_progress', else the final marker and res.end()
StreamStatus ==
    /\ sse.on /\ sse.cpc = "status"
    /\ sse' = IF sse.jstate = "in_progress"
              THEN [sse EXCEPT !.cpc = "polling"]
              ELSE [sse EXCEPT !.cpc = "closed",
                               !.got = Append(@, FinalMarker(sse.jstate))]
    /\ UNCHANGED <<engine, rb, disk, pq, host, cmd, io, sh, tm, enc>>

SseNext ==
    \/ LogWorkerStart
    \/ LogStep
    \/ LogCatch
    \/ LogTerminalWrite
    \/ LogWorkerReturn
    \/ StreamOpen
    \/ StreamStatus

SseSpec == SseInit /\ [][SseNext]_vars

---------------------------------------------------------------------------
(* The host: working directories, supervised processes, proxy configs *)

\* two invocations that have passed the idempotency check, for keys and
\* domains taken from the requests (one key twice is the pair of a direct
\* request and a queued job)
HostRuns == {"r1", "r2"}
HostKeys == {"t1-biz1", "t1-biz2"}
Domains == {"a.example", "b.example"}

DEPLOYMENT_PORT == 3001

\* the names under which a run for (key, domain) changes the host
deployDir(k) == <<"dir", k>>
pm2Name(k) == <<"proc", k>>
boundPort(k) == <<"port", DEPLOYMENT_PORT>>
nginxConfPath(d) == <<"conf", d>>
nginxSymlinkPath(d) == <<"link", d>>

\* the commands of executeDeployment that change the host, in their order;
\* "build" stands for the env file, npm install and the build, which change
\* the inside of the working directory only
HostSteps == <<"clone", "build", "pm2", "conf", "link", "test", "reload">>

\* the commands of attemptRollback, in their order
HostRbSteps == <<"rbPm2", "rbDir", "rbLink", "rbConf", "rbReload">>

HostStepNames == {HostSteps[i] : i \in 1..Len(HostSteps)}
HostRbNames == {HostRbSteps[i] : i \in 1..Len(HostRbSteps)}

AfterHostStep(pc) ==
    LET i == IndexOf(HostSteps, pc)
    IN IF i = Len(HostSteps) THEN "writeSuccess" ELSE HostSteps[i + 1]

\* what a command that succeeded has put on the host
Creates(pc, k, d) ==
    CASE pc = "clone" -> {deployDir(k)}
      [] pc = "pm2"   -> {pm2Name(k)}
      [] pc = "conf"  -> {nginxConfPath(d)}
      [] pc = "link"  -> {nginxSymlinkPath(d)}
      [] OTHER        -> {}

\* the names a command that succeeded has written to
Writes(pc, k, d) ==
    IF pc = "pm2" THEN {pm2Name(k), boundPort(k)} ELSE Creates(pc, k, d)

\* the validation state of the config files after a command: a new file is
\* untested, nginx -t passes for the whole enabled set or fails
TestedAfter(tested, present, pc, d, ok) ==
    CASE pc = "conf" /\ ok  -> [tested EXCEPT ![d] = "no"]
      [] pc = "test" /\ ok  ->
            [e \in Domains |-> IF nginxSymlinkPath(e) \in present
                               THEN "passed" ELSE tested[e]]
      [] pc = "test" /\ ~ok -> [tested EXCEPT ![d] = "failed"]
      [] OTHER              -> tested

\* what a rollback command removes
Removes(pc, k, d) ==
    CASE pc = "rbPm2"  -> {pm2Name(k)}
      [] pc = "rbDir"  -> {deployDir(k)}
      [] pc = "rbLink" -> {nginxSymlinkPath(d)}
      [] pc = "rbConf" -> {nginxConfPath(d)}
      [] OTHER         -> {}

\* a rollback command is run only for something to stop or remove: pm2 stop
\* fails without a process (caught), rm -rf is behind directoryExists
RbApplies(pc, present, k) ==
    CASE pc = "rbPm2" -> pm2Name(k) \in present
      [] pc = "rbDir" -> deployDir(k) \in present
      [] OTHER        -> TRUE

\* where the rollback goes after a command: a failing rm -rf is rethrown, a
\* failing rm -f of the link skips the rm -f of the config
AfterRbCommand(pc, ok) ==
    CASE pc = "rbPm2"    -> "rbDir"
      [] pc = "rbDir"    -> IF ok THEN "rbLink" ELSE "writeFailed"
      [] pc = "rbLink"   -> IF ok THEN "rbConf" ELSE "rbReload"
      [] pc = "rbConf"   -> "rbReload"
      [] pc = "rbReload" -> "writeFailed"

HostInit ==
    /\ EngineOff
    /\ rb = Off /\ sse = Off /\ disk = Off /\ pq = Off /\ cmd = Off /\ io = Off /\ sh = Off /\ tm = Off /\ enc = Off
    /\ host \in [on : {TRUE},
                 key : [HostRuns -> HostKeys],
                 domain : [HostRuns -> Domains],
                 pc : {[r \in HostRuns |-> "clone"]},
                 present : {{}},
                 tested : {[d \in Domains |-> "no"]},
                 wrote : {[r \in HostRuns |-> {}]},
                 failedAt : {[r \in HostRuns |-> "none"]},
                 rbOk : {[r \in HostRuns |-> TRUE]}]

\* one command of executeDeployment: it succeeds, or it fails and the catch
\* block starts the rollback
HostCommand(r) ==
    /\ host.on /\ host.pc[r] \in HostStepNames
    /\ LET pc == host.pc[r]
           k == host.key[r]
           d == host.domain[r]
       IN \E ok \in BOOLEAN :
            host' = [host EXCEPT
                !.pc[r] = IF ok THEN AfterHostStep(pc) ELSE "rbPm2",
                !.present = IF ok THEN @ \cup Creates(pc, k, d) ELSE @,
                !.wrote[r] = IF ok THEN @ \cup Writes(pc, k, d) ELSE @,
                !.tested = TestedAfter(@, host.present, pc, d, ok),
                !.failedAt[r] = IF ok THEN @ ELSE pc]
    /\ UNCHANGED <<engine, rb, sse, disk, pq, cmd, io, sh, tm, enc>>

\* one command of attemptRollback
HostRollbackCommand(r) ==
    /\ host.on /\ host.pc[r] \in HostRbNames
    /\ LET pc == host.pc[r]
           k == host.key[r]
           d == host.domain[r]
       IN IF ~RbApplies(pc, host.present, k)
          THEN host' = [host EXCEPT !.pc[r] = AfterRbCommand(pc, TRUE)]
          ELSE \E ok \in BOOLEAN :
                 host' = [host EXCEPT
                     !.pc[r] = AfterRbCommand(pc, ok),
                     !.present = IF ok THEN @ \ Removes(pc, k, d) ELSE @,
                     !.tested = IF ok /\ pc = "rbConf"
                                THEN [@ EXCEPT ![d] = "no"] ELSE @,
                     !.rbOk[r] = @ /\ ok]
    /\ UNCHANGED <<engine, rb, sse, disk, pq, cmd, io, sh, tm, enc>>

\* the terminal write of the run
HostTerminalWrite(r) ==
    /\ host.on /\ host.pc[r] \in {"writeSuccess", "writeFailed"}
    /\ host' = [host EXCEPT !.pc[r] = "done"]
    /\ UNCHANGED <<engine, rb, sse, disk, pq, cmd, io, sh, tm, enc>>

HostNext ==
    \E r \in HostRuns :
        \/ HostCommand(r)
        \/ HostRollbackCommand(r)
        \/ HostTerminalWrite(r)

HostSpec == HostInit /\ [][HostNext]_vars

---------------------------------------------------------------------------
(* One call of executeCommand *)

\* most chunks a child writes to one of its streams
MaxChunks == 2

OutChunks == {"line"}
ErrChunks == {"command not found", "warning"}

\* exit codes of a child that ran; 127 is also what bash -c gives for a
\* command whose executable is not found
ExitCodes == {0, 1, 127}
NOT_FOUND == 127

\* the code 'close' carries after a spawn that failed: the negated errno
SPAWN_ENOENT == -2

\* how the child ends: bash itself cannot be spawned; bash runs and does not
\* find the executable of the command; the command runs and exits
ChildKinds == {"nobash", "nocmd", "ran"}
StartFailures == {"nobash", "nocmd"}

SeqsUpTo(S, n) == UNION {[1..m -> S] : m \in 0..n}

PendingPromise == [state |-> "pending", value |-> <<>>]

\* proc.on('error', err => reject(err))
OnError(err) == [state |-> "rejected", value |-> <<"spawn error", err>>]

\* proc.on('close', code => code === 0 ? resolve(stdout) : reject(new Error(...)))
OnClose(code, stdout, stderr) ==
    IF code = 0
    THEN [state |-> "resolved", value |-> stdout]
    ELSE [state |-> "rejected",
          value |-> <<"Command failed with exit code", code, stderr>>]

\* resolve and reject of a promise that is settled already do nothing
Settle(promise, outcome) ==
    IF promise.state = "pending" THEN outcome ELSE promise

\* the codes 'close' can report: the negated errno of a spawn that failed,
\* 127 from bash, or the exit code of the command
CloseCodes(kind) ==
    CASE kind = "nobash" -> {SPAWN_ENOENT}
      [] kind = "nocmd"  -> {NOT_FOUND}
      [] OTHER           -> ExitCodes

CmdInit ==
    /\ EngineOff
    /\ rb = Off /\ sse = Off /\ disk = Off /\ pq = Off /\ host = Off /\ io = Off /\ sh = Off /\ tm = Off /\ enc = Off
    /\ cmd \in [on : {TRUE}, kind : ChildKinds,
                code : ExitCodes \cup {SPAWN_ENOENT},
                pc : {"running"}, stdout : {<<>>}, stderr : {<<>>},
                promise : {PendingPromise}, calls : {0}, settles : {0}]
    /\ cmd.code \in CloseCodes(cmd.kind)

\* proc.stdout.on('data'): the output is added to stdout
CmdStdout ==
    /\ cmd.on /\ cmd.pc = "running" /\ cmd.kind = "ran"
    /\ Len(cmd.stdout) < MaxChunks
    /\ \E c \in OutChunks : cmd' = [cmd EXCEPT !.stdout = Append(@, c)]
    /\ UNCHANGED <<engine, rb, sse, disk, pq, host, io, sh, tm, enc>>

\* proc.stderr.on('data'): bash reports the executable it did not find, a
\* command that runs writes what it likes
CmdStderr ==
    /\ cmd.on /\ cmd.pc = "running" /\ cmd.kind # "nobash"
    /\ Len(cmd.stderr) < MaxChunks
    /\ \E c \in ErrChunks :
         /\ cmd.kind = "nocmd" => (c = "command not found" /\ cmd.stderr = <<>>)
         /\ cmd' = [cmd EXCEPT !.stderr = Append(@, c)]
    /\ UNCHANGED <<engine, rb, sse, disk, pq, host, io, sh, tm, enc>>

\* the 'error' event of a spawn that failed
CmdError ==
    /\ cmd.on /\ cmd.pc = "running" /\ cmd.kind = "nobash"
    /\ cmd' = [cmd EXCEPT
                  !.pc = "errored",
                  !.promise = Settle(@, OnError("ENOENT")),
                  !.calls = @ + 1,
                  !.settles = IF cmd.promise.state = "pending" THEN @ + 1 ELSE @]
    /\ UNCHANGED <<engine, rb, sse, disk, pq, host, io, sh, tm, enc>>

\* the 'close' event: after 'error' for a spawn that failed, else when the
\* child has ended (bash has written its complaint by then)
CmdClose ==
    /\ cmd.on
    /\ \/ cmd.pc = "errored"
       \/ cmd.pc = "running" /\ cmd.kind = "ran"
       \/ cmd.pc = "running" /\ cmd.kind = "nocmd" /\ cmd.stderr # <<>>
    /\ cmd' = [cmd EXCEPT
                  !.pc = "closed",
                  !.promise = Settle(@, OnClose(cmd.code, cmd.stdout, cmd.stderr)),
                  !.calls = @ + 1,
                  !.settles = IF cmd.promise.state = "pending" THEN @ + 1 ELSE @]
    /\ UNCHANGED <<engine, rb, sse, disk, pq, host, io, sh, tm, enc>>

CmdNext == CmdStdout \/ CmdStderr \/ CmdError \/ CmdClose

CmdSpec == CmdInit /\ [][CmdNext]_vars

---------------------------------------------------------------------------
(* One queued run whose status-store writes and socket emits can fail *)

\* the I/O operations of a run that can fail
IoOps == {"emit:worker", "emit:pipeline", "emit:rollback", "emit:status",
          "write:in_progress", "write:success", "write:failed"}

\* emitDeployLog (and the try {} catch {} around the emits of the
\* script-orchestrating service): an emit that throws is swallowed
emitDeployLog(failed, emitOk, op) ==
    IF emitOk THEN failed ELSE failed \cup {op}

\* addLog of the worker: io.to(room).emit is not guarded, its exception
\* leaves the try block of the processor
addLog(failed, emitOk) ==
    IF emitOk THEN failed ELSE failed \cup {"emit:worker"}

IoInit ==
    /\ EngineOff
    /\ rb = Off /\ sse = Off /\ disk = Off /\ pq = Off /\ host = Off /\ cmd = Off /\ sh = Off /\ tm = Off /\ enc = Off
    /\ io = [on |-> TRUE, pc |-> "start", jstate |-> "active", rec |-> "none",
             result |-> "none", failed |-> {}]

\* the processor: addLog('Starting deployment...')
IoWorkerStart ==
    /\ io.on /\ io.pc = "start"
    /\ \E emitOk \in BOOLEAN :
         io' = [io EXCEPT !.failed = addLog(@, emitOk),
                          !.pc = IF emitOk THEN "writeIP" ELSE "catch"]
    /\ UNCHANGED <<engine, rb, sse, disk, pq, host, cmd, sh, tm, enc>>

\* await writeDeploymentFile(deploymentFile, inProgress), outside the try
\* block of deployThemeToBusiness
IoWriteInProgress ==
    /\ io.on /\ io.pc = "writeIP"
    /\ \/ io' = [io EXCEPT !.rec = "in_progress", !.pc = StepsSeq[1]]
       \/ io' = [io EXCEPT !.failed = @ \cup {"write:in_progress"},
                           !.pc = "catch"]
    /\ UNCHANGED <<engine, rb, sse, disk, pq, host, cmd, sh, tm, enc>>

\* one step of the pipeline: its output is emitted, and it succeeds or fails
IoStep ==
    /\ io.on
    /\ \E i \in 1..Len(StepsSeq), emitOk \in BOOLEAN, ok \in BOOLEAN :
         /\ io.pc = StepsSeq[i]
         /\ io' = [io EXCEPT
                      !.failed = emitDeployLog(@, emitOk, "emit:pipeline"),
                      !.pc = IF ok THEN NextPc("steps", io.pc) ELSE "rollback"]
    /\ UNCHANGED <<engine, rb, sse, disk, pq, host, cmd, sh, tm, enc>>

\* the catch block of deployThemeToBusiness: the rollback, whose commands
\* emit their output too
IoRollback ==
    /\ io.on /\ io.pc = "rollback"
    /\ \E emitOk \in BOOLEAN :
         io' = [io EXCEPT !.failed = emitDeployLog(@, emitOk, "emit:rollback"),
                          !.pc = "writeFailed"]
    /\ UNCHANGED <<engine, rb, sse, disk, pq, host, cmd, sh, tm, enc>>

\* the write of the success record, inside the try block
IoWriteSuccess ==
    /\ io.on /\ io.pc = "writeSuccess"
    /\ \/ io' = [io EXCEPT !.rec = "success", !.result = "success",
                           !.pc = "return"]
       \/ io' = [io EXCEPT !.failed = @ \cup {"write:success"},
                           !.pc = "rollback"]
    /\ UNCHANGED <<engine, rb, sse, disk, pq, host, cmd, sh, tm, enc>>

\* failDeployment / the write of the failed record, in the catch block: the
\* record is returned, an exception of the write is thrown on
IoWriteFailed ==
    /\ io.on /\ io.pc = "writeFailed"
    /\ \/ io' = [io EXCEPT !.rec = "failed", !.result = "failed",
                           !.pc = "return"]
       \/ io' = [io EXCEPT !.failed = @ \cup {"write:failed"},
                           !.pc = "catch"]
    /\ UNCHANGED <<engine, rb, sse, disk, pq, host, cmd, sh, tm, enc>>

\* deployThemeToBusiness returned: addLog('Deployment completed
\* successfully'), and the job is completed
IoWorkerReturn ==
    /\ io.on /\ io.pc = "return"
    /\ \E emitOk \in BOOLEAN :
         io' = [io EXCEPT !.failed = addLog(@, emitOk),
                          !.pc = IF emitOk THEN "over" ELSE "catch",
                          !.jstate = IF emitOk THEN "completed" ELSE @]
    /\ UNCHANGED <<engine, rb, sse, disk, pq, host, cmd, sh, tm, enc>>

\* catch (error) of the processor: addLog, then throw; the job is failed
\* whether that emit works or not
IoWorkerCatch ==
    /\ io.on /\ io.pc = "catch"
    /\ \E emitOk \in BOOLEAN :
         io' = [io EXCEPT !.failed = addLog(@, emitOk),
                          !.pc = "over", !.jstate = "failed"]
    /\ UNCHANGED <<engine, rb, sse, disk, pq, host, cmd, sh, tm, enc>>

\* worker.on('completed') / worker.on('failed'): deployment-status is
\* emitted for a job whose state is final already
IoStatusEvent ==
    /\ io.on /\ io.pc = "over"
    /\ \E emitOk \in BOOLEAN :
         io' = [io EXCEPT !.failed = emitDeployLog(@, emitOk, "emit:status"),
                          !.pc = "notified"]
    /\ UNCHANGED <<engine, rb, sse, disk, pq, host, cmd, sh, tm, enc>>

IoNext ==
    \/ IoWorkerStart
    \/ IoWriteInProgress
    \/ IoStep
    \/ IoRollback
    \/ IoWriteSuccess
    \/ IoWriteFailed
    \/ IoWorkerReturn
    \/ IoWorkerCatch
    \/ IoStatusEvent

IoSpec == IoInit /\ [][IoNext]_vars

---------------------------------------------------------------------------
(* deploy_theme.sh, run twice for one key and one domain *)

ShRuns == {"s1", "s2"}

\* what the script puts on the host, and what its rollback removes
ShResources == {"proc", "dir", "link", "conf"}

\* validate_dependencies, check_repo_access, and deploy from the lock test
\* on, then cleanup
ShSeq == SubSeq(ScriptSeq, 2, Len(ScriptSeq))

ShStepNames == {ShSeq[i] : i \in 1..Len(ShSeq)}

\* what is on the host after a step of the script: the clone replaces the
\* directory, pm2 start adds the process, the proxy step writes the config
\* and the link before it tests them (error_exit comes from ln, nginx -t
\* or the reload)
PresentAfter(present, pc, out) ==
    CASE pc = "clone" /\ out = "ok"         -> {present \cup {"dir"}}
      [] pc = "clone" /\ out # "ok"         -> {present, present \ {"dir"}}
      [] pc = "pm2" /\ out = "ok"           -> {present \cup {"proc"}}
      [] pc = "pm2" /\ out # "ok"           -> {present, present \ {"proc"}}
      [] pc = "nginx" /\ out = "ok"         -> {present \cup {"conf", "link"}}
      [] pc = "nginx" /\ out = "error_exit" -> {present \cup {"conf"},
                                               present \cup {"conf", "link"}}
      [] OTHER                              -> {present}

\* where the script goes after a step: error_exit calls rollback when
\* ${TMP_DIR}/deploy_in_progress exists, and exits; a command that fails
\* under set -e ends the script on the spot
AfterShStep(pc, out) ==
    IF out = "ok" THEN (IF pc = "cleanup" THEN "exited" ELSE NextPc("script", pc))
    ELSE IF out = "error_exit" /\ MarkerExists(pc) THEN "rollback"
    ELSE "exited"

ShInit ==
    /\ EngineOff
    /\ rb = Off /\ sse = Off /\ disk = Off /\ pq = Off /\ host = Off /\ cmd = Off /\ io = Off /\ tm = Off /\ enc = Off
    /\ sh = [on |-> TRUE,
             pc |-> [r \in ShRuns |-> "idle"],
             lockFile |-> FALSE,
             present |-> {},
             refused |-> [r \in ShRuns |-> FALSE],
             removed |-> [r \in ShRuns |-> {}],
             how |-> [r \in ShRuns |-> "none"]]

\* bash scripts/deploy_theme.sh ... is started
ShStart(r) ==
    /\ sh.on /\ sh.pc[r] = "idle"
    /\ sh' = [sh EXCEPT !.pc[r] = ShSeq[1]]
    /\ UNCHANGED <<engine, rb, sse, disk, pq, host, cmd, io, tm, enc>>

\* one step of the script; how is the way the script ends: "ok" at its
\* last line, "error_exit", or "set_e"
ShStep(r) ==
    /\ sh.on /\ sh.pc[r] \in ShStepNames
    /\ LET pc == sh.pc[r]
       IN \E out \in StepOutcomes("script", pc, sh.lockFile) :
          \E after \in PresentAfter(sh.present, pc, out) :
            sh' = [sh EXCEPT
                !.pc[r] = AfterShStep(pc, out),
                !.lockFile = LockAfter("script", pc, out, @),
                !.present = after,
                !.refused[r] = pc = "lock" /\ out # "ok",
                !.how[r] = IF out = "ok" /\ pc # "cleanup" THEN @ ELSE out]
    /\ UNCHANGED <<engine, rb, sse, disk, pq, host, cmd, io, tm, enc>>

\* rollback, called by error_exit, then exit 1: every removal is behind a
\* test and followed by || log_warn
ShRollback(r) ==
    /\ sh.on /\ sh.pc[r] = "rollback"
    /\ \E gone \in SUBSET sh.present :
         sh' = [sh EXCEPT !.pc[r] = "exited",
                          !.present = @ \ gone,
                          !.removed[r] = gone]
    /\ UNCHANGED <<engine, rb, sse, disk, pq, host, cmd, io, tm, enc>>

ShNext ==
    \E r \in ShRuns :
        \/ ShStart(r)
        \/ ShStep(r)
        \/ ShRollback(r)

ShSpec == ShInit /\ [][ShNext]_vars

---------------------------------------------------------------------------
(* One queued job and the timeout of its request *)

\* config.timeout of the request in seconds (min 60, max 1800): 0 stands
\* for a request without one
TimeoutConfigs == {0, 60, 600, 1800}
DEFAULT_TIMEOUT == 600

\* timeout: (config?.timeout || 600) * 1000
TimeoutMs(cfg) == (IF cfg # 0 THEN cfg ELSE DEFAULT_TIMEOUT) * 1000

\* jobOptions of addDeploymentJob for options with a timeout: the value
\* itself is not copied into them
JobOptions(timeoutMs) ==
    IF timeoutMs # 0
    THEN [removeOnComplete |-> FALSE, removeOnFail |-> FALSE, delay |-> 0,
          attempts |-> 1]
    ELSE [removeOnComplete |-> FALSE, removeOnFail |-> FALSE]

\* the clock of the view, in milliseconds
TmTicks == {30000, 300000}
MaxElapsed == 1860000

TmInit ==
    /\ EngineOff
    /\ rb = Off /\ sse = Off /\ disk = Off /\ pq = Off /\ host = Off /\ cmd = Off /\ io = Off /\ sh = Off /\ enc = Off
    /\ tm = [on |-> TRUE, jstate |-> "none", timeoutMs |-> 0,
             opts |-> JobOptions(0), elapsed |-> 0, reason |-> "none",
             rolledBack |-> FALSE]

\* deployTheme's queue path: the job is added with the options made from
\* the request
TmSubmit ==
    /\ tm.on /\ tm.jstate = "none"
    /\ \E cfg \in TimeoutConfigs :
         tm' = [tm EXCEPT !.jstate = "waiting",
                          !.timeoutMs = TimeoutMs(cfg),
                          !.opts = JobOptions(TimeoutMs(cfg))]
    /\ UNCHANGED <<engine, rb, sse, disk, pq, host, cmd, io, sh, enc>>

\* the worker takes the job
TmWorker ==
    /\ tm.on /\ tm.jstate = "waiting"
    /\ tm' = [tm EXCEPT !.jstate = "active"]
    /\ UNCHANGED <<engine, rb, sse, disk, pq, host, cmd, io, sh, enc>>

\* time passes while the processor is awaiting deployThemeToBusiness
TmTick ==
    /\ tm.on /\ tm.jstate = "active"
    /\ \E d \in TmTicks :
         /\ tm.elapsed + d <= MaxElapsed
         /\ tm' = [tm EXCEPT !.elapsed = @ + d]
    /\ UNCHANGED <<engine, rb, sse, disk, pq, host, cmd, io, sh, enc>>

\* the processor returns or throws: the only places where the job's state
\* is set
TmFinish ==
    /\ tm.on /\ tm.jstate = "active"
    /\ \E pc \in Finished, rolled \in BOOLEAN :
         tm' = [tm EXCEPT !.jstate = JobStateAfter(pc),
                          !.reason = IF pc = "threw" THEN "pipeline" ELSE "none",
                          !.rolledBack = rolled]
    /\ UNCHANGED <<engine, rb, sse, disk, pq, host, cmd, io, sh, enc>>

TmNext == TmSubmit \/ TmWorker \/ TmTick \/ TmFinish

TmSpec == TmInit /\ [][TmNext]_vars

---------------------------------------------------------------------------
(* The names derived from (themeId, businessId) *)

\* ids are strings of at least one character (z.string().min(1)); a letter
\* and the hyphen are enough to tell them apart
IdChars == {"a", "-"}
MaxIdLen == 3

Ids == SeqsUpTo(IdChars, MaxIdLen) \ {<<>>}

\* `${themeId}-${businessId}` : job id, log room, PM2 name, directory name
deploymentId(themeId, businessId) == themeId \o <<"-">> \o businessId

\* path.join(DEPLOYMENTS_DIR, `${themeId}-${businessId}.json`)
getDeploymentFilePath(themeId, businessId) ==
    <<"deployments", "/">> \o deploymentId(themeId, businessId) \o <<".json">>

EncInit ==
    /\ EngineOff
    /\ rb = Off /\ sse = Off /\ disk = Off /\ pq = Off /\ host = Off /\ cmd = Off /\ io = Off /\ sh = Off /\ tm = Off
    /\ enc \in [on : {TRUE}, pairs : [1..2 -> Ids \X Ids], done : {FALSE},
                jobId : {[i \in 1..2 |-> <<>>]}, file : {[i \in 1..2 |-> <<>>]}]

\* a submission for each pair: the job id and the record file are derived
EncDerive ==
    /\ enc.on /\ ~enc.done
    /\ enc' = [enc EXCEPT
                  !.done = TRUE,
                  !.jobId = [i \in 1..2 |->
                                deploymentId(enc.pairs[i][1], enc.pairs[i][2])],
                  !.file = [i \in 1..2 |->
                               getDeploymentFilePath(enc.pairs[i][1], enc.pairs[i][2])]]
    /\ UNCHANGED <<engine, rb, sse, disk, pq, host, cmd, io, sh, tm>>

EncNext == EncDerive

EncSpec == EncInit /\ [][EncNext]_vars

---------------------------------------------------------------------------
(* Properties *)

KeyOf(p) == run[p].key

\* the idempotency check of p is the step being taken
Checks(p) == run[p].pc = "check" /\ run'[p].pc # "check"

\* a run that returned the existing record has done nothing
ReturnedDidNothing ==
    \A p \in Slots :
        run[p].pc = "returned" =>
            /\ ~obs[p].ranCmd
            /\ obs[p].writes = <<>>
            /\ obs[p].rollbacks = 0

\* C1: for every key, at most one invocation of the pipeline is between its
\* in_progress write and its terminal write.
C1_AtMostOneActivePerKey ==
    \A k \in Keys :
        Cardinality({p \in Slots : KeyOf(p) = k /\ run[p].pc \in MidPipeline}) <= 1

\* C2 as stated: an invocation whose check reads the in_progress record of
\* another invocation that is still between its two writes returns it, runs
\* no command and writes nothing.
C2_InProgressAlwaysShortCircuits ==
    /\ []ReturnedDidNothing
    /\ [][\A p \in Slots :
            (/\ Checks(p)
             /\ store[KeyOf(p)].status = "in_progress"
             /\ OtherMidPipeline(p, KeyOf(p)))
            => (run'[p].pc = "returned" /\ store' = store)]_vars

\* C2 amended: the same, for a record that (in the step-based service) is
\* less than 30 minutes old when it is read.
C2_FreshInProgressShortCircuits ==
    /\ []ReturnedDidNothing
    /\ [][\A p \in Slots :
            (/\ Checks(p)
             /\ store[KeyOf(p)].status = "in_progress"
             /\ OtherMidPipeline(p, KeyOf(p))
             /\ (variant = "steps" =>
                    /\ store[KeyOf(p)].createdAt # NoTime
                    /\ now - store[KeyOf(p)].createdAt < 30))
            => (run'[p].pc = "returned" /\ store' = store)]_vars

\* a second invocation has returned the record of a first that is still running
C2_Witness ==
    \E p \in Slots :
        /\ run[p].pc = "returned"
        /\ obs[p].seen = "in_progress"
        /\ OtherMidPipeline(p, KeyOf(p))
        /\ store[KeyOf(p)].status = "in_progress"

\* C3: once a success record has been persisted for a key, every later
\* invocation for the key finds it, returns it, and leaves the store as it is.
C3_SuccessIsIdempotent ==
    /\ []ReturnedDidNothing
    /\ [][\A p \in Slots :
            (Checks(p) /\ everSuccess[KeyOf(p)])
            => (/\ store[KeyOf(p)].status = "success"
                /\ run'[p].pc = "returned"
                /\ store' = store)]_vars

C5_RollbackExactlyOnce ==
    \A p \in Slots :
        (run[p].pc = "done" /\ obs[p].cause = "step") => obs[p].rollbacks = 1

\* C6: whatever the rollback does, a run whose pipeline failed never ends by
\* throwing, goes on to the failed write, and returns the failed record it
\* has persisted.
C6_RollbackNeverChangesOutcome ==
    /\ [](\A p \in Slots :
            obs[p].cause = "step" =>
                /\ run[p].pc # "threw"
                /\ run[p].pc = "done" => obs[p].result = "failed")
    /\ [][\A p \in Slots :
            /\ (run[p].pc = "rollback" /\ run'[p].pc # "rollback")
               => run'[p].pc = "writeFailed"
            /\ (run[p].pc = "writeFailed" /\ run'[p].pc # "writeFailed")
               => (/\ run'[p].pc = "done"
                   /\ obs'[p].result = "failed"
                   /\ store'[KeyOf(p)].status = "failed")]_vars

\* a run has returned failed after a rollback that itself failed
C6_Witness ==
    \E p \in Slots :
        /\ run[p].pc = "done"
        /\ obs[p].rbOutcome \in {"threw", "spawnError"}
        /\ obs[p].result = "failed"
        /\ store[KeyOf(p)].status = "failed"

\* C7: a key whose record is failed and that is submitted again through the
\* queue eventually gets a new run (a new in_progress write).
C7_FailedIsRerunThroughQueue ==
    \A k \in Keys : resub[k] ~> ~resub[k]

\* C8: a queue-path request for a key whose job is waiting or active is
\* answered 409.
C8_AlreadyActiveRejected ==
    reply.seen \in {"waiting", "active"} => reply.code = 409

\* C9: in the step-based service, an invocation that finds an in_progress
\* record returns it (having run nothing) exactly when the record has a
\* createdAt less than 30 minutes old; otherwise it writes a new in_progress
\* record and enters the pipeline.
C9_InProgressShortCircuitsIffFresh ==
    /\ []ReturnedDidNothing
    /\ [][\A p \in Slots :
            /\ (/\ variant = "steps"
                /\ Checks(p)
                /\ store[KeyOf(p)].status = "in_progress")
               => (/\ run'[p].pc = "returned"
                      <=> (/\ store[KeyOf(p)].createdAt # NoTime
                           /\ now - store[KeyOf(p)].createdAt < 30)
                   /\ run'[p].pc \in {"returned", "writeIP"}
                   /\ store' = store)
            /\ (/\ variant = "steps"
                /\ run[p].pc = "writeIP" /\ run'[p].pc # "writeIP")
               => (/\ store'[KeyOf(p)] = [status |-> "in_progress", createdAt |-> now,
                                           error |-> FALSE]
                   /\ run'[p].pc \in {"deps", "sshFail"})]_vars

\* a stale in_progress record has been replaced and the pipeline is running
C9_Witness ==
    \E p \in Slots :
        /\ variant = "steps"
        /\ obs[p].seen = "in_progress"
        /\ run[p].pc \in StepNames
        /\ now >= 30
        /\ store[KeyOf(p)].createdAt = now

\* C10: every persisted status is in_progress, success or failed; the writes
\* of one run are in_progress followed by one terminal value; and a success
\* record is never overwritten.
C10_StatusStateMachine ==
    /\ [](\A k \in Keys : store[k].status \in Statuses \cup {"none"})
    /\ [](\A p \in Slots :
            /\ obs[p].writes \in {<<>>, <<"in_progress">>,
                                  <<"in_progress", "success">>,
                                  <<"in_progress", "failed">>}
            /\ run[p].pc = "done" => Len(obs[p].writes) = 2)
    /\ [][\A k \in Keys :
            store[k].status = "success" => store'[k] = store[k]]_vars

\* a command of invocation p runs: its output lines, and in the
\* script-orchestrating service the exit message, go to the key's room
Emits(p) ==
    /\ run[p].pc \in StepNames \cup {"scriptRollback", "rollback"}
    /\ run'[p].pc # run[p].pc

\* C12: once the worker has emitted deployment-status for a key's job, no
\* log event is emitted to the key's room until a new run of the key starts.
C12_NoLinesAfterTerminalMarker ==
    [][\A p \in Slots : Emits(p) => ~marked[KeyOf(p)]]_vars

\* position of a pipeline position among all of them; the eight steps of
\* the step-based service keep their order in it
Rank(pc) == IndexOf(ScriptSeq, pc)

\* C13: the steps of one run start in the fixed order (dependency
\* validation, source-access check, fetch, environment file, install, build,
\* process supervision, proxy configuration), each only when the one before
\* it has succeeded, and none after the first failure.
C13_StepsInOrderFailFast ==
    /\ [](\A p \in Slots : obs[p].cause # "none" => run[p].pc \notin StepNames)
    /\ [][\A p \in Slots :
            (run'[p].pc \in StepNames /\ run'[p].pc # run[p].pc)
            => IF run[p].pc \in StepNames
               THEN /\ Rank(run'[p].pc) > Rank(run[p].pc)
                    /\ \A i \in (Rank(run[p].pc) + 1)..(Rank(run'[p].pc) - 1) :
                          ScriptSeq[i] \notin {StepsSeq[j] : j \in 1..Len(StepsSeq)}
                    /\ obs'[p].cause = "none"
               ELSE /\ run[p].pc = "writeIP"
                    /\ run'[p].pc = FirstStep(variant)]_vars

\* a run has stopped at a step after the two checks, which were done in order
C13_Witness ==
    \E p \in Slots :
        /\ obs[p].failedAt = "later"
        /\ obs[p].ranCmd
        /\ run[p].pc \in {"scriptRollback", "rollback", "writeFailed"}

\* C14: a run whose dependency validation or source-access check failed
\* ends without any rollback (and so without its destructive commands).
C14_EarlyFailureNoRollback ==
    \A p \in Slots :
        obs[p].failedAt \in {"deps", "repo"} => obs[p].rollbacks = 0

\* the ways the rollback of the catch block can fail
RollbackFailures == {"caught", "threw", "nonzero", "spawnError"}

\* C16: a failed run whose rollback failed has an entry for that failure in
\* logs, and an error field that holds the rollback failure beside the
\* failure of the step.
C16_RollbackFailureInLogsAndError ==
    \A p \in Slots :
        (run[p].pc = "done" /\ obs[p].rbOutcome \in RollbackFailures)
        => /\ obs[p].rbLogged
           /\ {obs[p].cause, "rollback"} \subseteq obs[p].error

\* C15: in every rollback each of its steps (supervised process, working
\* directory, proxy config and link, proxy reload) is attempted, whatever
\* the earlier ones did.
C15_RollbackStepsIndependent ==
    (rb.on /\ rb.done) => rb.reached = RbSteps

\* C18: what an idempotency check reads while the record is being written is
\* a complete record, the one before the write or the new one, and so the
\* check never goes on to a pipeline of its own because of a record it could
\* not read.
C18_WritesAreAtomicOverwrites ==
    disk.on =>
        /\ disk.seen \notin Torn
        /\ ~(disk.rpc = "writeIP" /\ disk.seen \in Torn
                /\ disk.wpc \in {"dataIP", "pipeline", "openT", "dataT"})

\* a job leaves the waiting set for the worker
Dispatched == pq.on /\ Len(pq'.order) = Len(pq.order) + 1

\* C20: the job dispatched is, among the jobs waiting at that moment, one of
\* the highest requested priority (high before normal before low), and among
\* those the one submitted first.
C20_PriorityOrderedFifoTies ==
    [][Dispatched =>
          LET picked == pq'.order[Len(pq'.order)]
          IN \A i \in 1..Len(pq.waiting) :
                /\ Weight(pq.waiting[i].priority) <= Weight(picked.priority)
                /\ Weight(pq.waiting[i].priority) = Weight(picked.priority)
                   => \A j \in 1..Len(pq.waiting) :
                         pq.waiting[j].id = picked.id => j <= i]_vars

\* C11: a stream opened while the key's job is active is closed only when
\* the run has ended, having delivered every line of the buffer in order,
\* each once, followed by one final marker.
C11_StreamReplaysThenFollowsToTheEnd ==
    (sse.on /\ sse.cpc = "closed" /\ sse.openedAt = "active")
    => /\ sse.jstate \in {"completed", "failed"}
       /\ sse.got = Append(sse.buffer, FinalMarker(sse.jstate))

\* a line of the pipeline: a step message or command output
IsPipelineLine(line) == line[1] \in {"message", "output"}

\* C19: the logs of the terminal record and the lines sent to the key's room
\* by the pipeline are the same lines in the same order.
C19_LogsEqualBroadcast ==
    (sse.on /\ sse.wpc \in {"return", "over"})
    => sse.rec = SelectSeq(sse.room, IsPipelineLine)

\* the store is written by the step being taken
StoreWritten == store' # store

\* the write of p has put its record on disk
StoreWrittenBy(p) ==
    store'[KeyOf(p)].status = obs'[p].writes[Len(obs'[p].writes)]

\* invocation p is at one of its writes and performs it
PipelineWrites(p) ==
    /\ run[p].pc \in {"writeIP", "sshFail", "writeFailed", "writeSuccess"}
    /\ run'[p].pc # run[p].pc

\* every change of the store is one write of one invocation, to its own key;
\* no record disappears; and a write that is due does reach the store
OnlyPipelineWrites ==
    /\ StoreWritten =>
          \E p \in Slots :
             /\ PipelineWrites(p)
             /\ \A k \in Keys \ {KeyOf(p)} : store'[k] = store[k]
             /\ Len(obs'[p].writes) = Len(obs[p].writes) + 1
    /\ \A k \in Keys : fileExists(store[k]) => fileExists(store'[k])
    /\ \A q \in Slots : PipelineWrites(q) => StoreWrittenBy(q)

\* C17: a run that is not short-circuited writes in_progress once, before any
\* command, and one terminal status once (the ssh branch included); nothing
\* but the pipeline writes a record, and no record is ever deleted.
C17_PipelineIsOnlyWriterTwicePerRun ==
    /\ [](\A p \in Slots :
            /\ obs[p].writes \in {<<>>, <<"in_progress">>,
                                  <<"in_progress", "success">>,
                                  <<"in_progress", "failed">>}
            /\ obs[p].ranCmd => obs[p].writes # <<>>
            /\ run[p].pc = "done" => Len(obs[p].writes) = 2
            /\ run[p].pc = "returned" => obs[p].writes = <<>>)
    /\ [][OnlyPipelineWrites]_vars

\* a queued job on the ssh branch has made its two writes
C17_Witness ==
    /\ run[WorkerSlot].pc = "done"
    /\ obs[WorkerSlot].cause = "ssh"
    /\ obs[WorkerSlot].writes = <<"in_progress", "failed">>
    /\ jobs[KeyOf(WorkerSlot)].state = "active"

\* C22 as stated: every invocation for a tenant with ssh settings ends with
\* status failed and the fixed message, having run no command and no rollback.
C22_EverySshSubmissionFails ==
    \A p \in Slots :
        (run[p].ssh /\ run[p].pc \in Finished)
        => /\ obs[p].result = "failed"
           /\ obs[p].msg = SshMessage(variant)
           /\ ~obs[p].ranCmd
           /\ obs[p].rollbacks = 0

\* the invocation has passed its idempotency check and its in_progress write
PastInProgress(p) == obs[p].writes # <<>>

\* C22 amended: every invocation for a tenant with ssh settings that is not
\* short-circuited by the idempotency check writes failed right after its
\* in_progress write and ends with status failed and the fixed message,
\* having run no command and no rollback.
C22_SshRunPastCheckFails ==
    /\ [](\A p \in Slots :
            (run[p].ssh /\ PastInProgress(p))
            => /\ run[p].pc \in {"sshFail", "done"}
               /\ ~obs[p].ranCmd
               /\ obs[p].rollbacks = 0
               /\ run[p].pc = "done"
                  => /\ obs[p].result = "failed"
                     /\ obs[p].msg = SshMessage(variant)
                     /\ obs[p].writes = <<"in_progress", "failed">>)
    /\ [][\A p \in Slots :
            (run[p].ssh /\ run[p].pc = "sshFail" /\ run'[p].pc # "sshFail")
            => (run'[p].pc = "done" /\ store'[KeyOf(p)].status = "failed")]_vars

\* a queued job for a tenant with ssh settings has ended failed
C22_Witness ==
    /\ run[WorkerSlot].ssh
    /\ run[WorkerSlot].pc = "done"
    /\ obs[WorkerSlot].result = "failed"
    /\ obs[WorkerSlot].msg = SshMessage(variant)
    /\ store[KeyOf(WorkerSlot)].status = "failed"

\* C23: a proxy config is in the enabled set only when its validation has
\* passed.
C23_LinkedOnlyAfterValidation ==
    host.on =>
        \A d \in Domains :
            nginxSymlinkPath(d) \in host.present => host.tested[d] = "passed"

\* C24: two runs with distinct keys write disjoint sets of resources
\* (working directory, process name, bound port, proxy config and link),
\* whatever their domains are.
C24_ResourcesPartitionedByKey ==
    host.on =>
        \A r1, r2 \in HostRuns :
            host.key[r1] # host.key[r2] => host.wrote[r1] \cap host.wrote[r2] = {}

\* C30: when a run whose build failed after the fetch, and whose rollback
\* commands succeeded, is at its failed write, the working directory of its
\* key is absent and nothing this run created is left on the host.
C30_FailedRunLeavesNothing ==
    host.on =>
        \A r \in HostRuns :
            (/\ host.pc[r] = "writeFailed"
             /\ host.failedAt[r] = "build"
             /\ host.rbOk[r])
            => /\ deployDir(host.key[r]) \notin host.present
               /\ host.wrote[r] \cap host.present = {}

\* what the caller gets from a command that started: every settlement a
\* child that ran can end in
StartedSettlements ==
    {OnClose(c, out, err) : c \in ExitCodes,
                            out \in SeqsUpTo(OutChunks, MaxChunks),
                            err \in SeqsUpTo(ErrChunks, MaxChunks)}

\* C25: a call of executeCommand is settled once, when its child has closed
\* at the latest, resolved with the accumulated stdout exactly for exit code
\* 0; and what the caller gets for a command that could not be found or
\* started is nothing a command that started and exited can give.
C25_SettlesOnceAndTellsStartFailures ==
    cmd.on =>
        /\ cmd.settles <= 1
        /\ cmd.pc = "closed" => cmd.settles = 1
        /\ cmd.promise.state = "resolved"
           => (cmd.pc = "closed" /\ cmd.code = 0 /\ cmd.promise.value = cmd.stdout)
        /\ (cmd.pc = "closed" /\ cmd.kind \in StartFailures)
           => cmd.promise \notin StartedSettlements

\* C26: a run during which a status-store write or an emit failed ends with
\* its job failed, or at the least with the failed record as its result; it
\* is never a completed job with a success record.
C26_IoErrorsFailTheJob ==
    (io.on /\ io.pc = "over" /\ io.failed # {})
    => (io.jstate = "failed" \/ io.result = "failed")

\* what a request must leave alone to have changed nothing: the jobs (state
\* and payload; the priority is stored, or not, by the same add), the
\* records, and every invocation of the pipeline
NothingMutated == UNCHANGED <<jobs, store, lock, run, obs>>

\* C27: a request with a malformed body, and a queue-path submission for a
\* key whose job is waiting or active, leave the job, the record of the key
\* and every run as they are, and start no pipeline step.
C27_RejectedSubmissionMutatesNothing ==
    [][/\ deployThemeInvalid => NothingMutated
       /\ (deployThemeQueued /\ reply'.seen \in {"waiting", "active"})
          => NothingMutated]_vars

\* a submission has come in for a key whose job is active and in its steps,
\* and the job still carries the payload it was admitted with
C27_Witness ==
    /\ reply.seen = "active"
    /\ jobs[KeyOf(WorkerSlot)].state = "active"
    /\ jobs[KeyOf(WorkerSlot)].ssh = run[WorkerSlot].ssh
    /\ run[WorkerSlot].pc \in StepNames

\* C28: every persisted record that has an error field has status failed,
\* and so has every record an invocation returns: the one it wrote, or the
\* persisted one its idempotency check returns.
C28_ErrorOnlyWhenFailed ==
    /\ \A k \in Keys : store[k].error => store[k].status = "failed"
    /\ \A p \in Slots :
          /\ obs[p].error # {} => obs[p].result = "failed"
          /\ obs[p].result \in {"in_progress", "success"} => obs[p].error = {}

\* a run that found a failed record with its error field has replaced it by
\* an in_progress record without one
C28_Witness ==
    \E p \in Slots :
        /\ variant = "steps"
        /\ obs[p].seen = "failed"
        /\ obs[p].writes = <<"in_progress">>
        /\ store[KeyOf(p)].status = "in_progress"
        /\ ~store[KeyOf(p)].error

IsPrefix(a, b) == Len(a) <= Len(b) /\ SubSeq(b, 1, Len(a)) = a

\* C29: within one run the logs of the in_progress record are a prefix of
\* the logs of the terminal record, and the in-memory buffer only grows at
\* its end.
C29_LogsAppendOnly ==
    /\ []((sse.on /\ sse.wpc \in {"return", "over"})
            => IsPrefix(sse.ipLogs, sse.rec))
    /\ [][sse.on => IsPrefix(sse.buffer, sse'.buffer)]_vars

\* what a rollback finds when there is nothing of the key on the host
NothingToRemove == rb.has \cap {"proc", "dir", "link", "conf"} = {}

\* C31: a rollback (attemptRollback, rollback_deploy.sh) that finds no
\* supervised process, no working directory and no proxy config or link, and
\* none of whose commands fails for another reason, logs each of the three
\* removals as skipped because nothing was there, reports none as failed or
\* as done, and does not fail.
C31_RollbackNoOpsAreLogged ==
    (/\ rb.on /\ rb.done
     /\ rb.kind \in {"attemptRollback", "rollback_deploy"}
     /\ "pm2cmd" \in rb.has /\ NothingToRemove /\ rb.f = {})
    => /\ \A s \in RbRemovals : rb.report[s] = "absent"
       /\ rb.outcome = "ok"

\* every other invocation of the script for the key has not been started,
\* or has exited: at its end (exit 0) or through error_exit
OthersExited(r) ==
    \A q \in ShRuns \ {r} :
        \/ sh.pc[q] = "idle"
        \/ sh.pc[q] = "exited" /\ sh.how[q] \in {"ok", "error_exit"}

C33_TimeoutHonoured ==
    (tm.on /\ tm.elapsed > tm.timeoutMs)
    => (tm.jstate = "failed" /\ tm.reason = "timeout" /\ tm.rolledBack)

\* invocation p is in its rollback: the script's own, or the one the catch
\* block starts
InRollback(p) == run[p].pc \in {"scriptRollback", "rollback"}

\* the failed write of p comes right after its rollback has ended, and a
\* run that ended failed because a step failed has had its rollback
FailedWriteFollowsRollback ==
    /\ [][\A p \in Slots :
            /\ (run'[p].pc = "writeFailed" /\ run[p].pc # "writeFailed")
               => run[p].pc = "rollback"
            /\ (InRollback(p) /\ store'[KeyOf(p)] # store[KeyOf(p)])
               => \E q \in Slots \ {p} : PipelineWrites(q)]_vars
    /\ [](\A p \in Slots :
            (obs[p].cause = "step" /\ "failed" \in {obs[p].writes[i] : i \in 1..Len(obs[p].writes)})
            => (obs[p].rollbacks >= 1 /\ run[p].pc = "done"))

\* C34: in every failed run the failed record is written only after the
\* rollback has finished (and the job's status event comes later still);
\* while the rollback is running the persisted status of the key is
\* in_progress.
C34_FailedPersistedAfterRollback ==
    /\ FailedWriteFollowsRollback
    /\ [](\A p \in Slots : InRollback(p) => store[KeyOf(p)].status = "in_progress")
    /\ [](\A p \in Slots : (p = WorkerSlot /\ InRollback(p)) => ~marked[KeyOf(p)])

\* the processor of the worker ends: its job gets its final state, and the
\* listener of that state emits deployment-status
WorkerEnds == run[WorkerSlot].pc \in Finished /\ run'[WorkerSlot].pc = "idle"

\* C35: a job whose run returned a success record ends completed (with the
\* completed status event), and a job whose run returned a failed record
\* ends failed (with the failed status event).
C35_JobOutcomeAgreesWithRecord ==
    [][(WorkerEnds /\ obs[WorkerSlot].result \in {"success", "failed"})
       => jobs'[KeyOf(WorkerSlot)].state =
             (IF obs[WorkerSlot].result = "success" THEN "completed"
              ELSE "failed")]_vars

\* C36: when the worker emits deployment-status for a key, the record of the
\* key has a terminal status and no invocation of the pipeline for the key
\* is between its two writes.
C36_MarkerOnlyWhenFinished ==
    [][WorkerEnds =>
          /\ store[KeyOf(WorkerSlot)].status \in {"success", "failed"}
          /\ ~OtherMidPipeline(WorkerSlot, KeyOf(WorkerSlot))]_vars

\* C37: two pairs (themeId, businessId) of non-empty strings that differ
\* have different job ids (log rooms) and different record files.
C37_KeyEncodingInjective ==
    (enc.on /\ enc.done /\ enc.pairs[1] # enc.pairs[2])
    => (enc.jobId[1] # enc.jobId[2] /\ enc.file[1] # enc.file[2])

\* a job of the key is waiting or active
Admitted(k) == jobs[k].state \in {"waiting", "active"}

\* the in_progress record of the key belongs to no invocation of this
\* process: the one that wrote it died between its two writes
Orphaned(k) ==
    /\ store[k].status = "in_progress"
    /\ \A p \in Slots : KeyOf(p) = k => run[p].pc \notin MidPipeline

\* the key has been submitted: its job is waiting or active, or a direct
\* request is at its idempotency check
Submitted(k) ==
    \/ Admitted(k)
    \/ \E p \in DirectSlots : KeyOf(p) = k /\ run[p].pc = "check"

\* C39: a key whose in_progress record was left by a process that died, and
\* that is submitted again, eventually has a record with a terminal status.
C39_NoStuckInProgressAfterCrash ==
    \A k \in Keys :
        (Orphaned(k) /\ Submitted(k)) ~> store[k].status \in {"success", "failed"}

\* C21: every admitted job eventually reaches a terminal job state, and the
\* record of its key a terminal status; and cancelDeployment changes neither
\* the job, the record nor the running pipeline.
C21_JobsRunToTheEndUncancelled ==
    /\ \A k \in Keys : Admitted(k) ~> jobs[k].state \in {"completed", "failed"}
    /\ \A k \in Keys : Admitted(k) ~> store[k].status \in {"success", "failed"}
    /\ [][cancelDeployment => UNCHANGED <<jobs, store, lock, run, obs>>]_vars
====
